---- MODULE Spec2Model ----
(***************************************************************************)
(* A model of the LangChain context enhancer of the ghost service          *)
(* (src/src/services/ghost/LangChainContextEnhancer.ts): its configuration,*)
(* its initialization life cycle and its two asynchronous operations,      *)
(* indexWorkspaceDocuments and enhanceContext, interleaved with            *)
(* updateConfig at every suspension point (every await).                   *)
(*                                                                         *)
(* Numbers: similarityThreshold and similarity scores are in hundredths    *)
(* (0.7 is 70, 1 is 100).                                                  *)
(***************************************************************************)
EXTENDS Integers, Sequences, FiniteSets, TLC

VARIABLES
    engine,                 \* "absent" | "live" | "threw": what new LangChainContextEnhancer(..) gave;
                            \* "noKey": GhostContext found no API key and constructed none
    config,                 \* this.config
    textSplitter,           \* this.textSplitter: the splitter's own chunkSize / chunkOverlap
    vectorStore,            \* this.vectorStore: 0 (null) or the id of a store object
    embeddings,             \* this.embeddings: 0 (null) or the id of a provider object
    isInitialized,          \* this.isInitialized
    initializationPromise,  \* this.initializationPromise: 0 (null) or the id of a promise
    inits,                  \* the heap: one entry per initializeVectorStore() run (its promise,
                            \* its provider and its store, which share the run's id)
    idx,                    \* the indexWorkspaceDocuments invocation (its position and locals)
    enh,                    \* the enhanceContext invocation (its position and locals)
    snapshot,               \* the object the caller got from getConfig(), and what it did to it
    probe,                  \* a query of the first version's store: what was stored, asked, answered
    lastOp,                 \* history: the operation of the last step and what it was given
    hist                    \* history: counters and flags the claims are stated with

vars == <<engine, config, textSplitter, vectorStore, embeddings, isInitialized,
          initializationPromise, inits, idx, enh, snapshot, probe, lastOp, hist>>

engineVars == <<config, textSplitter, vectorStore, embeddings, isInitialized,
                initializationPromise, inits>>

----------------------------------------------------------------------------
(* Bounds of the model *)

MaxUpdates == 2         \* updateConfig calls that get past validation, in a run
MaxIndexCalls == 1      \* indexWorkspaceDocuments calls in a run
MaxEnhanceCalls == 1    \* enhanceContext calls in a run
MaxConfigUpdates == 1   \* the same three, in the configuration specification
MaxConfigIndexCalls == 1
MaxConfigEnhanceCalls == 1
MaxSearchIndexCalls == 2   \* index calls in the search specification
MaxDocs == 2            \* documents handed to one indexWorkspaceDocuments call
MaxPartialFields == 2   \* fields carried by one updateConfig argument
MaxGetConfigCalls == 2  \* getConfig calls in a run of the snapshot specification
MaxSnapshotWrites == 1  \* writes of the caller to an object getConfig returned
MaxWords == 3           \* words of a text of the first version's store, or of its query
MaxStoredTexts == 2     \* documents held by the first version's store

(* Program constants *)

MinChunkSize == 100
MaxChunkSize == 4000
MinChunkOverlap == 0
MaxChunkOverlap == 1000
MinContextFiles == 1
MaxContextFiles == 50
MinSimilarityThreshold == 0
MaxSimilarityThreshold == 100
DefaultChunkSize == 1000
DefaultChunkOverlap == 200
DefaultMaxContextFiles == 10
DefaultSimilarityThreshold == 70
DefaultModelName == "text-embedding-3-small"

----------------------------------------------------------------------------
(* Values *)

Fields == {"enabled", "chunkSize", "chunkOverlap", "maxContextFiles",
           "similarityThreshold", "openaiApiKey", "modelName"}

Min(a, b) == IF a < b THEN a ELSE b

\* An argument object (the constructor's config, updateConfig's newConfig) is a
\* function from the fields it carries to their values; a field it leaves out
\* (undefined) is not in its domain.
Has(arg, f) == f \in DOMAIN arg

\* The values an updateConfig argument may give each field: for a number, one below
\* its bounds, one within them and one above them (the chunkOverlap within its bounds
\* is 0, which is falsy, and chunkSize 100 is not above the default chunkOverlap); an
\* empty API key and another key; another model.
UpdateValues(f) ==
    CASE f = "enabled"             -> {TRUE, FALSE}
      [] f = "chunkSize"           -> {50, 100, 4001}
      [] f = "chunkOverlap"        -> {-1, 0, 1001}
      [] f = "maxContextFiles"     -> {0, 1, 51}
      [] f = "similarityThreshold" -> {-10, 0, 101}
      [] f = "openaiApiKey"        -> {"", "key-2"}
      [] f = "modelName"           -> {"text-embedding-3-large"}

Without(arg, f) == [g \in DOMAIN arg \ {f} |-> arg[g]]

With(arg, f, v) == [g \in DOMAIN arg \cup {f} |-> IF g = f THEN v ELSE arg[g]]

RECURSIVE ArgsOver(_)
ArgsOver(F) ==
    IF F = {} THEN {<<>>}
    ELSE LET f == CHOOSE x \in F : TRUE
             rest == ArgsOver(F \ {f})
         IN  rest \cup {With(a, f, v) :
                            a \in {r \in rest : Cardinality(DOMAIN r) < MaxPartialFields},
                            v \in UpdateValues(f)}

\* updateConfig's arguments: every choice of at most MaxPartialFields fields.
Partials == ArgsOver(Fields)

\* The constructor's arguments: the tests' configuration (testConfig), that
\* configuration with one field left out, and with one field given any other value.
TestConfig ==
    [f \in Fields |->
        CASE f = "enabled"             -> TRUE
          [] f = "chunkSize"           -> 1000
          [] f = "chunkOverlap"        -> 200
          [] f = "maxContextFiles"     -> 10
          [] f = "similarityThreshold" -> 70
          [] f = "openaiApiKey"        -> "key-1"
          [] f = "modelName"           -> "text-embedding-3-small"]

ConstructorArgs ==
    {TestConfig, With(TestConfig, "enabled", FALSE)}
    \cup {Without(TestConfig, f) : f \in Fields}
    \cup UNION {{With(TestConfig, f, v) : v \in UpdateValues(f)} : f \in Fields}

----------------------------------------------------------------------------
(* The engine object.  The operations below are functions of `this`, the record *)
(* of the object's fields, so that updateConfig and the constructor can run     *)
(* initializeVectorStore as part of their own step, as the code does: the body  *)
(* of the async function has no await, so it runs to its end inside the call.   *)

This ==
    [config |-> config, textSplitter |-> textSplitter, vectorStore |-> vectorStore,
     embeddings |-> embeddings, isInitialized |-> isInitialized,
     initializationPromise |-> initializationPromise, inits |-> inits]

\* What the two constructor calls of initializeVectorStore's try block may do: both
\* succeed, new OpenAIEmbeddings(..) throws, or new MemoryVectorStore(..) throws.
InitOutcomes == {"ok", "embeddingsThrow", "storeThrow"}

\* new RecursiveCharacterTextSplitter({chunkSize, chunkOverlap}): the splitter keeps
\* its own copy of the two parameters; its constructor rejects chunkOverlap >= chunkSize.
NewTextSplitter(cfg) ==
    [chunkSize |-> cfg["chunkSize"], chunkOverlap |-> cfg["chunkOverlap"]]

TextSplitterThrows(cfg) == cfg["chunkOverlap"] >= cfg["chunkSize"]

\* this.config.modelName || "text-embedding-3-small"
EffectiveModel(cfg) ==
    IF cfg["modelName"] = "" THEN DefaultModelName ELSE cfg["modelName"]

\* new MemoryVectorStore(this.embeddings): an empty store bound to its provider.
NewMemoryVectorStore(provider) == <<>>

\* initializeVectorStore(), with the promise its caller stores: the run gets the next
\* id of the heap; its promise is fulfilled when the run returns and rejected when it
\* throws, which is before the caller gets it: the body has no await.
initializeVectorStore(t, outcome) ==
    LET id == Len(t.inits) + 1
        skip == t.isInitialized \/ ~t.config["enabled"]
        result == IF skip THEN "skipped" ELSE outcome
        run == [apiKey |-> t.config["openaiApiKey"],
                modelName |-> EffectiveModel(t.config),
                result |-> result,
                memoryVectors |-> NewMemoryVectorStore(id)]
    IN  [t EXCEPT !.inits = Append(@, run),
                  !.embeddings = IF result \in {"ok", "storeThrow"} THEN id ELSE @,
                  !.vectorStore = IF result = "ok" THEN id ELSE @,
                  !.isInitialized = IF result = "ok" THEN TRUE ELSE @,
                  !.initializationPromise = id]

Rejected(run) == run.result \in {"embeddingsThrow", "storeThrow"}

\* The constructor's merge of its argument with the defaults (config.x ?? default).
ConstructorConfig(arg) ==
    [f \in Fields |->
        IF Has(arg, f) THEN arg[f]
        ELSE CASE f = "enabled"             -> TRUE
               [] f = "chunkSize"           -> DefaultChunkSize
               [] f = "chunkOverlap"        -> DefaultChunkOverlap
               [] f = "maxContextFiles"     -> DefaultMaxContextFiles
               [] f = "similarityThreshold" -> DefaultSimilarityThreshold
               [] f = "modelName"           -> DefaultModelName
               [] OTHER                     -> ""]

\* if (!config.openaiApiKey) throw
ConstructorRejectsKey(arg) == ~Has(arg, "openaiApiKey") \/ arg["openaiApiKey"] = ""

\* The fields of a new object, before the constructor's body runs.
FreshObject(cfg) ==
    [config |-> cfg, textSplitter |-> NewTextSplitter(cfg), vectorStore |-> 0,
     embeddings |-> 0, isInitialized |-> FALSE, initializationPromise |-> 0,
     inits |-> <<>>]

\* new LangChainContextEnhancer(arg): [threw, this].
Construct(arg, outcome) ==
    IF ConstructorRejectsKey(arg) THEN [threw |-> "apiKey"]
    ELSE LET cfg == ConstructorConfig(arg) IN
         IF TextSplitterThrows(cfg) THEN [threw |-> "splitter"]
         ELSE [threw |-> "none",
               this |-> IF cfg["enabled"]
                        THEN initializeVectorStore(FreshObject(cfg), outcome)
                        ELSE FreshObject(cfg)]

\* Variants of ValidateUpdate: without the check of the API key, and without the checks
\* of maxContextFiles and similarityThreshold.
ValidateUpdateBoundsOnly(arg) ==
    CASE Has(arg, "chunkSize")
            /\ (arg["chunkSize"] < MinChunkSize \/ arg["chunkSize"] > MaxChunkSize)
            -> "chunkSize"
      [] Has(arg, "chunkOverlap")
            /\ (arg["chunkOverlap"] < MinChunkOverlap \/ arg["chunkOverlap"] > MaxChunkOverlap)
            -> "chunkOverlap"
      [] Has(arg, "maxContextFiles")
            /\ (arg["maxContextFiles"] < MinContextFiles
                    \/ arg["maxContextFiles"] > MaxContextFiles)
            -> "maxContextFiles"
      [] Has(arg, "similarityThreshold")
            /\ (arg["similarityThreshold"] < MinSimilarityThreshold
                    \/ arg["similarityThreshold"] > MaxSimilarityThreshold)
            -> "similarityThreshold"
      [] OTHER -> "none"

ValidateUpdateSizesOnly(arg) ==
    CASE Has(arg, "openaiApiKey") /\ arg["openaiApiKey"] = "" -> "apiKey"
      [] Has(arg, "chunkSize")
            /\ (arg["chunkSize"] < MinChunkSize \/ arg["chunkSize"] > MaxChunkSize)
            -> "chunkSize"
      [] Has(arg, "chunkOverlap")
            /\ (arg["chunkOverlap"] < MinChunkOverlap \/ arg["chunkOverlap"] > MaxChunkOverlap)
            -> "chunkOverlap"
      [] OTHER -> "none"

\* The checks updateConfig makes before it touches anything, in the code's order:
\* the name of the first one that throws, or "none".
ValidateUpdate(arg) ==
    CASE Has(arg, "openaiApiKey") /\ arg["openaiApiKey"] = "" -> "apiKey"
      [] Has(arg, "chunkSize")
            /\ (arg["chunkSize"] < MinChunkSize \/ arg["chunkSize"] > MaxChunkSize)
            -> "chunkSize"
      [] Has(arg, "chunkOverlap")
            /\ (arg["chunkOverlap"] < MinChunkOverlap \/ arg["chunkOverlap"] > MaxChunkOverlap)
            -> "chunkOverlap"
      [] Has(arg, "maxContextFiles")
            /\ (arg["maxContextFiles"] < MinContextFiles
                    \/ arg["maxContextFiles"] > MaxContextFiles)
            -> "maxContextFiles"
      [] Has(arg, "similarityThreshold")
            /\ (arg["similarityThreshold"] < MinSimilarityThreshold
                    \/ arg["similarityThreshold"] > MaxSimilarityThreshold)
            -> "similarityThreshold"
      [] OTHER -> "none"

\* A variant of MergeConfig: { ...newConfig, ...this.config }, the old values win.
MergeConfigKeepingOld(cfg, arg) == [f \in Fields |-> cfg[f]]

\* this.config = { ...this.config, ...newConfig }
MergeConfig(cfg, arg) == [f \in Fields |-> IF Has(arg, f) THEN arg[f] ELSE cfg[f]]

\* if (newConfig.chunkSize || newConfig.chunkOverlap): a field that is absent or 0 is falsy.
RebuildsSplitter(arg) ==
    \/ (Has(arg, "chunkSize") /\ arg["chunkSize"] # 0)
    \/ (Has(arg, "chunkOverlap") /\ arg["chunkOverlap"] # 0)

\* A variant of ResetsVectorStore: newConfig.enabled !== undefined in the place of
\* newConfig.enabled === false.
ResetsOnAnyEnabled(arg) ==
    Has(arg, "enabled") \/ Has(arg, "openaiApiKey") \/ Has(arg, "modelName")

\* A variant of ResetsVectorStore: newConfig.enabled === false only.
ResetsOnDisableOnly(arg) == Has(arg, "enabled") /\ arg["enabled"] = FALSE

\* newConfig.enabled === false || newConfig.openaiApiKey !== undefined
\*     || newConfig.modelName !== undefined
ResetsVectorStore(arg) ==
    \/ (Has(arg, "enabled") /\ arg["enabled"] = FALSE)
    \/ Has(arg, "openaiApiKey")
    \/ Has(arg, "modelName")

ResetVectorStore(t) ==
    [t EXCEPT !.vectorStore = 0, !.embeddings = 0, !.isInitialized = FALSE,
              !.initializationPromise = 0]

\* if (this.config.enabled && !this.isInitialized && !this.initializationPromise)
Reinitialize(t, outcome) ==
    IF t.config["enabled"] /\ ~t.isInitialized /\ t.initializationPromise = 0
    THEN initializeVectorStore(t, outcome)
    ELSE t

\* updateConfig(arg): [threw, this].  A throw of the splitter's constructor leaves the
\* merged configuration in place and skips the rest of the method.
updateConfig(t, arg, outcome) ==
    IF ValidateUpdate(arg) # "none" THEN [threw |-> ValidateUpdate(arg), this |-> t]
    ELSE LET merged == [t EXCEPT !.config = MergeConfig(t.config, arg)] IN
         IF RebuildsSplitter(arg) /\ TextSplitterThrows(merged.config)
         THEN [threw |-> "splitter", this |-> merged]
         ELSE LET split == IF RebuildsSplitter(arg)
                           THEN [merged EXCEPT !.textSplitter = NewTextSplitter(merged.config)]
                           ELSE merged
                  reset == IF ResetsVectorStore(arg) THEN ResetVectorStore(split) ELSE split
              IN  [threw |-> "none", this |-> Reinitialize(reset, outcome)]

\* A variant of isReady: ready as soon as an initialization was started.
isReadyWhenStarted == config["enabled"] /\ (isInitialized \/ initializationPromise # 0)

\* A variant of isAvailable: without the promise.
isAvailableWhenInitialized == config["enabled"] /\ isInitialized

\* A variant of CopyOf: the object itself is handed out.
SameObject(object) == [alias |-> TRUE, value |-> object]

\* { ...object }: a new object with the fields of `object`.  `alias` tells whether the
\* result is the object that this.config refers to.
CopyOf(object) == [alias |-> FALSE, value |-> object]

\* getConfig(), isReady(), isAvailable()
getConfig == config

isReady == config["enabled"] /\ isInitialized /\ vectorStore # 0

isAvailable == config["enabled"] /\ (isInitialized \/ initializationPromise # 0)

\* GhostContext.hasLangChainEnhancement(): the context holds an enhancer (its
\* constructor did not throw) and the enhancer's isReady() is true.
hasLangChainEnhancement == engine = "live" /\ isReady

----------------------------------------------------------------------------
(* Documents, chunks and queries *)

\* A vscode.TextDocument: its uri (scheme, fsPath), its languageId and its text.  A
\* text is its name, its length and whether it is whitespace only.
DocA == [scheme |-> "file", fsPath |-> "/test/a.ts", languageId |-> "typescript",
         text |-> [name |-> "a", chars |-> 150, blank |-> FALSE]]

DocB == [scheme |-> "file", fsPath |-> "/test/b.ts", languageId |-> "typescript",
         text |-> [name |-> "b", chars |-> 80, blank |-> FALSE]]

DocBlank == [scheme |-> "file", fsPath |-> "/test/empty.ts", languageId |-> "typescript",
             text |-> [name |-> "blank", chars |-> 3, blank |-> TRUE]]

DocUntitled == [scheme |-> "untitled", fsPath |-> "Untitled-1", languageId |-> "plaintext",
                text |-> [name |-> "u", chars |-> 150, blank |-> FALSE]]

\* A file of more chunks than a search returns, with chunks of 100 characters.
DocLong == [scheme |-> "file", fsPath |-> "/test/long.ts", languageId |-> "typescript",
            text |-> [name |-> "long", chars |-> 650, blank |-> FALSE]]

Docs == {DocA, DocB, DocBlank, DocUntitled}

Batches == UNION {[1..n -> Docs] : n \in 0..MaxDocs}

\* doc.getText().trim().length
TrimmedLength(text) == IF text.blank THEN 0 ELSE text.chars

\* A variant of SliceTo: the whole batch.
WholeBatch(docs, n) == docs

\* documents.slice(0, n): a negative n counts from the end.
SliceTo(docs, n) ==
    LET end == IF n < 0 THEN Len(docs) + n ELSE Min(n, Len(docs))
    IN  IF end <= 0 THEN <<>> ELSE SubSeq(docs, 1, end)

\* doc.uri.scheme !== "file" || doc.getText().trim().length === 0
Skipped(doc) == doc.scheme # "file" \/ TrimmedLength(doc.text) = 0

CeilDiv(a, b) == (a + b - 1) \div b

\* textSplitter.splitText(text): windows of chunkSize characters that advance by
\* chunkSize - chunkOverlap; a text that fits in one window is one chunk, and a
\* whitespace-only text gives no chunk.
splitText(splitter, text) ==
    LET size == splitter.chunkSize
        step == splitter.chunkSize - splitter.chunkOverlap
        n == IF TrimmedLength(text) = 0 THEN 0
             ELSE IF text.chars <= size THEN 1
             ELSE 1 + CeilDiv(text.chars - size, step)
    IN  [i \in 1..n |->
            [text |-> text.name, start |-> (i - 1) * step,
             length |-> Min(size, text.chars - (i - 1) * step)]]

\* new Document({pageContent: chunks[i], metadata: {filePath, chunkIndex: i, language}})
Documents(doc, chunks) ==
    [i \in 1..Len(chunks) |->
        [pageContent |-> chunks[i],
         metadata |-> [filePath |-> doc.fsPath, chunkIndex |-> i - 1,
                       language |-> doc.languageId]]]

\* The provider a store embeds with: the one it was constructed with.
ProviderOf(run) == [apiKey |-> run.apiKey, modelName |-> run.modelName]

\* A variant of DocumentEmbedder: the provider of the engine's configuration at the time.
DocumentEmbedderOfEngine(id) ==
    [apiKey |-> config["openaiApiKey"], modelName |-> EffectiveModel(config)]

\* vectorStore.addDocuments(docs) -> embeddings.embedDocuments: who embeds the documents
\* added to store `id`.
DocumentEmbedder(id) == ProviderOf(inits[id])

\* vectorStore.similaritySearchWithScore(query, k) -> embeddings.embedQuery: who embeds
\* the query of a search of store `id`.
QueryEmbedder(id) == ProviderOf(inits[id])

\* A string of the query side: its words and its length in characters.  "" is EmptyStr;
\* a string of whitespace has a length and no word.
EmptyStr == [w |-> <<>>, n |-> 0]

QueryA == [w |-> <<"a">>, n |-> 1]

QueryB == [w |-> <<"b">>, n |-> 1]

QueryLong == [w |-> <<"long">>, n |-> 4]

\* A query whose vector points away from the vectors of all the stored texts.
QueryFar == [w |-> <<"far">>, n |-> 3]

\* Longer strings: half a query, and more than a query may hold; a line of spaces.
QueryHalf == [w |-> <<"half">>, n |-> 300]

QueryHuge == [w |-> <<"huge">>, n |-> 600]

Spaces == [w |-> <<>>, n |-> 2]

MaxQueryLength == 500

RECURSIVE JoinFrom(_, _)
JoinFrom(parts, i) ==
    IF i > Len(parts) THEN EmptyStr
    ELSE LET rest == JoinFrom(parts, i + 1)
         IN  [w |-> parts[i].w \o rest.w,
              n |-> parts[i].n + (IF i < Len(parts) THEN 1 ELSE 0) + rest.n]

\* parts.join(" ")
Join(parts) == JoinFrom(parts, 1)

\* s.slice(0, 500)
Slice(str, limit) == IF str.n <= limit THEN str ELSE [w |-> str.w, n |-> limit]

\* s.trim()
Trim(str) == IF str.w = <<>> THEN EmptyStr ELSE str

\* A variant of buildSearchQuery: the diagnostics first, the user input last.
buildSearchQueryBackwards(context) ==
    LET userInput == IF Has(context, "userInput") /\ context["userInput"].n > 0
                     THEN <<context["userInput"]>> ELSE <<>>
        line == IF Has(context, "lineText") /\ Trim(context["lineText"]).n > 0
                THEN <<Trim(context["lineText"])>> ELSE <<>>
        node == IF Has(context, "astType") THEN <<context["astType"]>> ELSE <<>>
        diag == IF Has(context, "diagnostics") /\ Len(context["diagnostics"]) > 0
                THEN <<Join(context["diagnostics"])>> ELSE <<>>
    IN  Slice(Join(diag \o node \o line \o userInput), MaxQueryLength)

\* buildSearchQuery(context): a context is a function from the fields it has
\* (userInput, lineText for document and range, astType for rangeASTNode,
\* diagnostics for a list of messages) to their values.
buildSearchQuery(context) ==
    LET userInput == IF Has(context, "userInput") /\ context["userInput"].n > 0
                     THEN <<context["userInput"]>> ELSE <<>>
        line == IF Has(context, "lineText") /\ Trim(context["lineText"]).n > 0
                THEN <<Trim(context["lineText"])>> ELSE <<>>
        node == IF Has(context, "astType") THEN <<context["astType"]>> ELSE <<>>
        diag == IF Has(context, "diagnostics") /\ Len(context["diagnostics"]) > 0
                THEN <<Join(context["diagnostics"])>> ELSE <<>>
    IN  Slice(Join(userInput \o line \o node \o diag), MaxQueryLength)

\* query || this.buildSearchQuery(originalContext): an absent or empty query is falsy.
SearchQuery(arg) ==
    IF Has(arg, "query") /\ arg["query"].n > 0 THEN arg["query"]
    ELSE buildSearchQuery(arg["context"])

\* What enhanceContext is called with: a context and, maybe, a query.
EnhanceArgs ==
    {[context |-> c] : c \in {<<>>, [userInput |-> QueryB]}}
    \cup {[context |-> <<>>, query |-> q] : q \in {EmptyStr, QueryA}}

\* The score the store gives a stored document for a query, in hundredths: high for
\* the chunks of the text the query names, falling with the chunk's position, and
\* low for the other texts.  It is the cosine of two vectors: below zero when the
\* vectors point apart.
Similarity(query, document) ==
    IF query.w # <<>> /\ query.w[1] = document.pageContent.text
    THEN 100 - 10 * document.metadata.chunkIndex
    ELSE IF query = QueryFar THEN -5 ELSE 30

TopK == 5

\* A variant of FirstBest: the position of the last entry with the highest score.
LastBest(scored) ==
    CHOOSE i \in 1..Len(scored) :
        /\ \A j \in 1..Len(scored) : scored[j].score <= scored[i].score
        /\ \A j \in (i + 1)..Len(scored) : scored[j].score < scored[i].score

\* The position of the first entry of `scored` with the highest score.
FirstBest(scored) ==
    CHOOSE i \in 1..Len(scored) :
        /\ \A j \in 1..Len(scored) : scored[j].score <= scored[i].score
        /\ \A j \in 1..(i - 1) : scored[j].score < scored[i].score

RemoveAt(seq, i) == SubSeq(seq, 1, i - 1) \o SubSeq(seq, i + 1, Len(seq))

\* The k best of `scored`, best first, equal scores in their stored order.
RECURSIVE Best(_, _)
Best(scored, k) ==
    IF k = 0 \/ scored = <<>> THEN <<>>
    ELSE LET i == FirstBest(scored)
         IN  <<scored[i]>> \o Best(RemoveAt(scored, i), k - 1)

\* A variant of similaritySearchWithScore: every entry with its score, in stored order.
similaritySearchOfAll(memoryVectors, query, k) ==
    [i \in 1..Len(memoryVectors) |->
        [entry |-> memoryVectors[i], pos |-> i,
         score |-> Similarity(query, memoryVectors[i].document)]]

\* vectorStore.similaritySearchWithScore(query, k) on the entries of a store.
similaritySearchWithScore(memoryVectors, query, k) ==
    Best([i \in 1..Len(memoryVectors) |->
            [entry |-> memoryVectors[i], pos |-> i,
             score |-> Similarity(query, memoryVectors[i].document)]], k)

\* A variant of Dedup: the paths as they are, one per chunk.
PathOfEveryChunk(paths) == paths

\* Array.from(new Set(paths)): the first occurrence of each path, in order.
RECURSIVE Dedup(_)
Dedup(paths) ==
    IF paths = <<>> THEN <<>>
    ELSE LET front == Dedup(SubSeq(paths, 1, Len(paths) - 1))
             last == paths[Len(paths)]
         IN  IF \E i \in 1..Len(front) : front[i] = last THEN front
             ELSE Append(front, last)

\* generateContextSummary(originalContext, relevantChunks): the parts it joins.
generateContextSummary(context, chunks) ==
    (IF Has(context, "fileName") THEN <<[part |-> "Current file", n |-> 1]>> ELSE <<>>)
    \o (IF Len(chunks) > 0
        THEN <<[part |-> "Found relevant code chunks", n |-> Len(chunks)],
               [part |-> "Related files",
                n |-> Len(Dedup([i \in 1..Len(chunks) |-> chunks[i].filePath]))]>>
        ELSE <<>>)
    \o (IF Has(context, "diagnostics") /\ Len(context["diagnostics"]) > 0
        THEN <<[part |-> "Active diagnostics", n |-> Len(context["diagnostics"])]>>
        ELSE <<>>)

NullResult ==
    [isNull |-> TRUE, relevantCodeChunks |-> <<>>, relatedFiles |-> <<>>,
     contextSummary |-> <<>>]

\* The result enhanceContext builds from the store's answer: the entries at or above
\* the threshold, each with the history of its entry (who embedded it, and when).
EnhancedContext(context, relevantDocs, threshold) ==
    LET kept == SelectSeq(relevantDocs, LAMBDA r : r.score >= threshold)
        chunks == [i \in 1..Len(kept) |->
                    [content |-> kept[i].entry.document.pageContent,
                     filePath |-> kept[i].entry.document.metadata.filePath,
                     similarity |-> kept[i].score,
                     embeddedBy |-> kept[i].entry.embeddedBy,
                     addedAt |-> kept[i].entry.addedAt]]
    IN  [isNull |-> FALSE,
         relevantCodeChunks |-> chunks,
         relatedFiles |-> Dedup([i \in 1..Len(chunks) |-> chunks[i].filePath]),
         contextSummary |-> generateContextSummary(context, chunks)]

----------------------------------------------------------------------------
(* The two asynchronous operations.  An invocation runs from one await to the   *)
(* next in one step; between two of its steps any other step may be taken.      *)

IdleIndex ==
    [pc |-> "idle", batch |-> <<>>, docs |-> <<>>, chunks |-> <<>>, acc |-> <<>>,
     promise |-> 0, store |-> 0, outcome |-> "none",
     initializing |-> FALSE, awaited |-> FALSE, cap |-> 0, splitters |-> {}]

IdleEnhance ==
    [pc |-> "idle", arg |-> [context |-> <<>>], query |-> EmptyStr, promise |-> 0,
     store |-> 0, outcome |-> "none", result |-> NullResult,
     initializing |-> FALSE, awaited |-> FALSE, issuedAt |-> 0,
     queryEmbeddedBy |-> <<>>, comparedWith |-> {}, found |-> <<>>, threshold |-> 0]

\* The invocation has returned (its promise resolves): `outcome` names the return.
Return(call, outcome) == [call EXCEPT !.pc = "done", !.outcome = outcome]

\* The engine is initializing for its callers: it is enabled and holds the promise of
\* an initialization started earlier in this turn, which no continuation has followed.
Initializing ==
    /\ config["enabled"]
    /\ initializationPromise # 0
    /\ hist.initTurn

RECURSIVE DropSkipped(_)
DropSkipped(docs) ==
    IF docs = <<>> THEN <<>>
    ELSE IF Skipped(Head(docs)) THEN DropSkipped(Tail(docs))
    ELSE docs

\* A variant of IndexAdd: addDocuments is called whatever the loop collected.
IndexAddAlways(call) ==
    IF vectorStore = 0 THEN Return(call, "nullStore")
    ELSE [call EXCEPT !.pc = "add", !.store = vectorStore]

\* After the loop: if (langchainDocs.length > 0) await this.vectorStore.addDocuments(..),
\* where this.vectorStore is read again; the call on null throws a TypeError, which the
\* catch of the method logs.
IndexAdd(call) ==
    IF call.acc = <<>> THEN Return(call, "nothingToIndex")
    ELSE IF vectorStore = 0 THEN Return(call, "nullStore")
    ELSE [call EXCEPT !.pc = "add", !.store = vectorStore]

\* The for loop, from its head to its next await (splitText of the next document that
\* is not skipped, with the splitter the object holds now) or to its end.
IndexLoop(call) ==
    LET rest == DropSkipped(call.docs)
    IN  IF rest = <<>> THEN IndexAdd([call EXCEPT !.docs = <<>>])
        ELSE [call EXCEPT !.pc = "split", !.docs = rest,
                          !.chunks = splitText(textSplitter, Head(rest).text),
                          !.splitters = @ \cup {textSplitter}]

\* From the check of this.vectorStore to the first await of the loop.
IndexProceed(call) ==
    IF vectorStore = 0 THEN Return(call, "noStore")
    ELSE IndexLoop([call EXCEPT !.docs = SliceTo(call.batch, config["maxContextFiles"]),
                                !.cap = config["maxContextFiles"]])

\* A variant of IndexEnter: without the check of this.config.enabled.
IndexEnterUnguarded(batch) ==
    LET call == [IdleIndex EXCEPT !.batch = batch, !.initializing = Initializing]
    IN  IF initializationPromise # 0
        THEN [call EXCEPT !.pc = "awaitInit", !.promise = initializationPromise,
                          !.awaited = TRUE]
        ELSE IndexProceed(call)

\* indexWorkspaceDocuments(documents), to its first await.
IndexEnter(batch) ==
    LET call == [IdleIndex EXCEPT !.batch = batch, !.initializing = Initializing]
    IN  IF ~config["enabled"] THEN Return(call, "disabled")
        ELSE IF initializationPromise # 0
        THEN [call EXCEPT !.pc = "awaitInit", !.promise = initializationPromise,
                          !.awaited = TRUE]
        ELSE IndexProceed(call)

\* A variant of Entries: an entry for the first document only.
EntryOfFirst(store, documents, now) ==
    [i \in 1..Min(1, Len(documents)) |->
        [document |-> documents[i], embeddedBy |-> DocumentEmbedder(store),
         addedAt |-> now]]

\* The entries addDocuments appends to the store: one per document, in order.
Entries(store, documents, now) ==
    [i \in 1..Len(documents) |->
        [document |-> documents[i], embeddedBy |-> DocumentEmbedder(store),
         addedAt |-> now]]

\* A variant of addDocuments: a document the store holds already is not stored again.
addDocumentsOnce(memoryVectors, entries, ok) ==
    IF ok
    THEN memoryVectors \o SelectSeq(entries, LAMBDA e :
            \A j \in 1..Len(memoryVectors) : memoryVectors[j].document # e.document)
    ELSE memoryVectors

\* A variant of addDocuments: the documents are embedded and stored one at a time, so
\* that a failure leaves the ones before it in the store.
addDocumentsOneByOne(memoryVectors, entries, ok) ==
    IF ok THEN memoryVectors \o entries
    ELSE memoryVectors \o SubSeq(entries, 1, Len(entries) - 1)

\* MemoryVectorStore.addDocuments: all the documents are embedded first (one provider
\* call, which may throw), then all their entries are pushed.
addDocuments(memoryVectors, entries, ok) ==
    IF ok THEN memoryVectors \o entries ELSE memoryVectors

\* From the check of this.vectorStore to the await of the search.
EnhanceProceed(call) ==
    IF vectorStore = 0 THEN Return(call, "noStore")
    ELSE IF call.query.n = 0 THEN Return(call, "noQuery")
    ELSE [call EXCEPT !.pc = "search", !.store = vectorStore,
                      !.queryEmbeddedBy = QueryEmbedder(vectorStore)]

\* if (this.initializationPromise && !this.isInitialized)
EnhanceAwaitsInit == initializationPromise # 0 /\ ~isInitialized

\* enhanceContext(originalContext, query), to its first await.
EnhanceEnter(arg, now) ==
    LET call == [IdleEnhance EXCEPT !.arg = arg, !.query = SearchQuery(arg),
                                    !.initializing = Initializing, !.issuedAt = now,
                                    !.threshold = config["similarityThreshold"]]
    IN  IF ~config["enabled"] THEN Return(call, "disabled")
        ELSE IF EnhanceAwaitsInit
        THEN [call EXCEPT !.pc = "awaitInit", !.promise = initializationPromise,
                          !.awaited = TRUE]
        ELSE EnhanceProceed(call)

----------------------------------------------------------------------------
(* History *)

\* What the last step was: the operation, the throw it ended with ("none" when it
\* returned) and what its argument carried.
Step(op) == [op |-> op, threw |-> "none", carried |-> {}]

OutOfBounds(arg) ==
    \/ Has(arg, "chunkSize") /\ (arg["chunkSize"] < 100 \/ arg["chunkSize"] > 4000)
    \/ Has(arg, "chunkOverlap") /\ (arg["chunkOverlap"] < 0 \/ arg["chunkOverlap"] > 1000)
    \/ Has(arg, "maxContextFiles") /\ (arg["maxContextFiles"] < 1 \/ arg["maxContextFiles"] > 50)
    \/ Has(arg, "similarityThreshold")
        /\ (arg["similarityThreshold"] < 0 \/ arg["similarityThreshold"] > 100)

\* The argument also carries a field whose value is valid by itself.
CarriesValid(arg) ==
    \/ Has(arg, "enabled") \/ Has(arg, "modelName")
    \/ Has(arg, "openaiApiKey") /\ arg["openaiApiKey"] # ""
    \/ Has(arg, "chunkSize") /\ arg["chunkSize"] \in 100..4000
    \/ Has(arg, "chunkOverlap") /\ arg["chunkOverlap"] \in 0..1000
    \/ Has(arg, "maxContextFiles") /\ arg["maxContextFiles"] \in 1..50
    \/ Has(arg, "similarityThreshold") /\ arg["similarityThreshold"] \in 0..100

Carried(arg) ==
    {tag \in {"outOfBounds", "valid", "emptyKey", "noKey", "keyOrModel", "onlyDisable"} :
        CASE tag = "outOfBounds" -> OutOfBounds(arg)
          [] tag = "valid"       -> CarriesValid(arg)
          [] tag = "emptyKey"    -> Has(arg, "openaiApiKey") /\ arg["openaiApiKey"] = ""
          [] tag = "noKey"       -> ~Has(arg, "openaiApiKey") /\ DOMAIN arg = Fields \ {"openaiApiKey"}
          [] tag = "keyOrModel"  -> Has(arg, "openaiApiKey") \/ Has(arg, "modelName")
          [] tag = "onlyDisable" -> DOMAIN arg = {"enabled"} /\ arg["enabled"] = FALSE}

InitialHistory ==
    [updates |-> 0, indexCalls |-> 0, enhanceCalls |-> 0, epoch |-> 0,
     everEnabled |-> FALSE, initTurn |-> FALSE]

----------------------------------------------------------------------------
(* The store of the first version of the enhancer, SimpleMemoryVectorStore, and  *)
(* the query against it.  A text is the sequence of the words that whitespace    *)
(* separates in it; scores are fractions [num, den], thresholds hundredths.      *)

SomeWords == {"a", "A", "b"}

Texts == UNION {[1..n -> SomeWords] : n \in 0..MaxWords}

\* word.toLowerCase()
ToLowerCase(word) == IF word = "A" THEN "a" ELSE word

\* text.toLowerCase().split(/\s+/): the empty text gives one empty word.
SplitWords(text) ==
    IF text = <<>> THEN <<"">> ELSE [i \in 1..Len(text) |-> ToLowerCase(text[i])]

\* A variant of SimpleScore: the common words over the words of both texts.
SimpleScoreOverBoth(query, pageContent) ==
    LET queryWords == SplitWords(query)
        docWords == SplitWords(pageContent)
        commonWords == SelectSeq(queryWords,
                            LAMBDA word : \E j \in 1..Len(docWords) : docWords[j] = word)
    IN  [num |-> Len(commonWords), den |-> Len(queryWords) + Len(docWords)]

\* score = commonWords.length / Math.max(queryWords.length, docWords.length), where
\* commonWords = queryWords.filter((word) => docWords.includes(word))
SimpleScore(query, pageContent) ==
    LET queryWords == SplitWords(query)
        docWords == SplitWords(pageContent)
        commonWords == SelectSeq(queryWords,
                            LAMBDA word : \E j \in 1..Len(docWords) : docWords[j] = word)
    IN  [num |-> Len(commonWords),
         den |-> IF Len(queryWords) >= Len(docWords) THEN Len(queryWords)
                 ELSE Len(docWords)]

\* The comparison of two fractions.
AtLeast(a, b) == a.num * b.den >= b.num * a.den

\* results.sort(([, a], [, b]) => b - a).slice(0, limit): the sort is stable, so of two
\* results of equal score the one stored first comes first.
SimpleSearch(documents, query, limit) ==
    LET scored == [j \in 1..Len(documents) |->
                        [pos |-> j, pageContent |-> documents[j],
                         score |-> SimpleScore(query, documents[j])]]
        Before(m, j) == \/ ~AtLeast(scored[j].score, scored[m].score)
                        \/ AtLeast(scored[m].score, scored[j].score) /\ m < j
        rank(j) == Cardinality({m \in 1..Len(scored) : Before(m, j)}) + 1
    IN  [i \in 1..Min(limit, Len(scored)) |->
            scored[CHOOSE j \in 1..Len(scored) : rank(j) = i]]

\* enhanceContext(originalContext, query) of the first version, on a store that holds
\* `documents`: null for an empty query, else the results at or above the threshold.
SimpleEnhance(documents, query, threshold) ==
    IF query = <<>> THEN [isNull |-> TRUE, relevantCodeChunks |-> <<>>]
    ELSE [isNull |-> FALSE,
          relevantCodeChunks |->
            SelectSeq(SimpleSearch(documents, query, TopK),
                      LAMBDA r : r.score.num * 100 >= threshold * r.score.den)]

\* No query of the first version's store was made yet.
NoProbe == [asked |-> FALSE, documents |-> <<>>, query |-> <<>>, threshold |-> 0,
            result |-> [isNull |-> TRUE, relevantCodeChunks |-> <<>>]]

----------------------------------------------------------------------------
(* The state machine *)

\* No object was obtained from getConfig() yet.
NoSnapshot == [taken |-> FALSE, alias |-> FALSE, value |-> <<>>, calls |-> 0, writes |-> 0]

Init ==
    /\ engine = "absent"
    /\ config = <<>>
    /\ textSplitter = <<>>
    /\ vectorStore = 0
    /\ embeddings = 0
    /\ isInitialized = FALSE
    /\ initializationPromise = 0
    /\ inits = <<>>
    /\ idx = IdleIndex
    /\ enh = IdleEnhance
    /\ snapshot = NoSnapshot
    /\ probe = NoProbe
    /\ lastOp = Step("none")
    /\ hist = InitialHistory

SetThis(t) ==
    /\ config' = t.config
    /\ textSplitter' = t.textSplitter
    /\ vectorStore' = t.vectorStore
    /\ embeddings' = t.embeddings
    /\ isInitialized' = t.isInitialized
    /\ initializationPromise' = t.initializationPromise
    /\ inits' = t.inits

\* new LangChainContextEnhancer(arg)
Constructor(arg, outcome) ==
    /\ engine = "absent"
    /\ LET made == Construct(arg, outcome) IN
        /\ lastOp' = [op |-> "constructor", threw |-> made.threw, carried |-> Carried(arg)]
        /\ IF made.threw = "none"
           THEN /\ engine' = "live"
                /\ SetThis(made.this)
                /\ hist' = [hist EXCEPT !.everEnabled = made.this.config["enabled"],
                                         !.initTurn = made.this.initializationPromise # 0]
           ELSE /\ engine' = "threw"
                /\ UNCHANGED <<engineVars, hist>>
    /\ UNCHANGED <<idx, enh, snapshot, probe>>

\* enhancer.updateConfig(arg)
UpdateConfig(arg, outcome) ==
    /\ engine = "live"
    /\ LET done == updateConfig(This, arg, outcome) IN
        /\ SetThis(done.this)
        /\ lastOp' = [op |-> "updateConfig", threw |-> done.threw, carried |-> Carried(arg)]
        /\ hist' = [hist EXCEPT
                        !.updates = IF done.threw \in {"none", "splitter"} THEN @ + 1 ELSE @,
                        !.epoch = IF done.threw = "none"
                                        /\ (Has(arg, "openaiApiKey") \/ Has(arg, "modelName"))
                                  THEN @ + 1 ELSE @,
                        !.everEnabled = @ \/ done.this.config["enabled"],
                        !.initTurn = /\ done.this.initializationPromise # 0
                                     /\ (@ \/ Len(done.this.inits) > Len(inits))]
        /\ snapshot' = IF done.this.config = config THEN snapshot
                       ELSE [snapshot EXCEPT !.alias = FALSE]
    /\ UNCHANGED <<engine, idx, enh, probe>>

\* enhancer.indexWorkspaceDocuments(batch) is called.
IndexStart(batch) ==
    /\ engine = "live"
    /\ idx.pc \in {"idle", "done"}
    /\ idx' = IndexEnter(batch)
    /\ hist' = [hist EXCEPT !.indexCalls = @ + 1]
    /\ lastOp' = Step("index")
    /\ UNCHANGED <<engine, engineVars, enh, snapshot, probe>>

\* A variant of IndexAfterInit: the call is resumed only when the promise it awaits is
\* fulfilled.
IndexAfterInitFulfilled ==
    /\ idx.pc = "awaitInit"
    /\ ~Rejected(inits[idx.promise])
    /\ idx' = IndexProceed(idx)
    /\ lastOp' = Step("index")
    /\ hist' = [hist EXCEPT !.initTurn = FALSE]
    /\ UNCHANGED <<engine, engineVars, enh, snapshot, probe>>

\* await this.initializationPromise returns or throws.
IndexAfterInit ==
    /\ idx.pc = "awaitInit"
    /\ idx' = IF Rejected(inits[idx.promise]) THEN Return(idx, "initFailed")
              ELSE IndexProceed(idx)
    /\ lastOp' = Step("index")
    /\ hist' = [hist EXCEPT !.initTurn = FALSE]
    /\ UNCHANGED <<engine, engineVars, enh, snapshot, probe>>

\* await this.textSplitter.splitText(..) returns the chunks or throws.
IndexAfterSplit(ok) ==
    /\ idx.pc = "split"
    /\ idx' = IF ok
              THEN IndexLoop([idx EXCEPT
                                !.acc = @ \o Documents(Head(idx.docs), idx.chunks),
                                !.docs = Tail(@), !.chunks = <<>>])
              ELSE Return(idx, "splitFailed")
    /\ lastOp' = Step("index")
    /\ hist' = [hist EXCEPT !.initTurn = FALSE]
    /\ UNCHANGED <<engine, engineVars, enh, snapshot, probe>>

\* await this.vectorStore.addDocuments(..) returns (all the documents are in the
\* store) or throws (none is).
IndexAfterAdd(ok) ==
    /\ idx.pc = "add"
    /\ inits' = [inits EXCEPT ![idx.store].memoryVectors =
                        addDocuments(@, Entries(idx.store, idx.acc, hist.epoch), ok)]
    /\ idx' = Return(idx, IF ok THEN "indexed" ELSE "addFailed")
    /\ lastOp' = Step("index")
    /\ hist' = [hist EXCEPT !.initTurn = FALSE]
    /\ UNCHANGED <<engine, config, textSplitter, vectorStore, embeddings, isInitialized,
                   initializationPromise, enh, snapshot, probe>>

\* enhancer.enhanceContext(arg.context, arg.query) is called.
EnhanceStart(arg) ==
    /\ engine = "live"
    /\ enh.pc \in {"idle", "done"}
    /\ enh' = EnhanceEnter(arg, hist.epoch)
    /\ hist' = [hist EXCEPT !.enhanceCalls = @ + 1]
    /\ lastOp' = Step("enhance")
    /\ UNCHANGED <<engine, engineVars, idx, snapshot, probe>>

\* await this.initializationPromise returns or throws.
EnhanceAfterInit ==
    /\ enh.pc = "awaitInit"
    /\ enh' = IF Rejected(inits[enh.promise]) THEN Return(enh, "initFailed")
              ELSE EnhanceProceed(enh)
    /\ lastOp' = Step("enhance")
    /\ hist' = [hist EXCEPT !.initTurn = FALSE]
    /\ UNCHANGED <<engine, engineVars, idx, snapshot, probe>>

\* await this.vectorStore.similaritySearchWithScore(searchQuery, 5) returns or throws.
EnhanceAfterSearch(ok) ==
    /\ enh.pc = "search"
    /\ enh' = IF ok
              THEN LET stored == inits[enh.store].memoryVectors
                       found == similaritySearchWithScore(stored, enh.query, TopK)
                   IN  [Return(enh, "enhanced") EXCEPT
                          !.result = EnhancedContext(enh.arg["context"], found,
                                                     config["similarityThreshold"]),
                          !.comparedWith = {stored[i].embeddedBy : i \in 1..Len(stored)},
                          !.found = [i \in 1..Len(found) |->
                                        [pos |-> found[i].pos, score |-> found[i].score]]]
              ELSE Return(enh, "searchFailed")
    /\ lastOp' = Step("enhance")
    /\ hist' = [hist EXCEPT !.initTurn = FALSE]
    /\ UNCHANGED <<engine, engineVars, idx, snapshot, probe>>

\* enhancer.getConfig() is called: the caller holds what it returns.
GetConfig ==
    /\ engine = "live"
    /\ snapshot.calls < MaxGetConfigCalls
    /\ snapshot' = [taken |-> TRUE, alias |-> CopyOf(getConfig).alias,
                    value |-> CopyOf(getConfig).value,
                    calls |-> snapshot.calls + 1, writes |-> snapshot.writes]
    /\ lastOp' = Step("getConfig")
    /\ UNCHANGED <<engine, engineVars, idx, enh, probe, hist>>

\* The caller assigns to a field of the object it holds: returned[f] = v.  This
\* changes this.config exactly when the object is the one this.config refers to.
MutateSnapshot(f, v) ==
    /\ snapshot.taken
    /\ snapshot.writes < MaxSnapshotWrites
    /\ snapshot.value[f] # v
    /\ snapshot' = [snapshot EXCEPT !.value = With(@, f, v), !.writes = @ + 1]
    /\ config' = IF snapshot.alias THEN With(config, f, v) ELSE config
    /\ lastOp' = Step("mutate")
    /\ UNCHANGED <<engine, textSplitter, vectorStore, embeddings, isInitialized,
                   initializationPromise, inits, idx, enh, probe, hist>>

\* GhostContext: the settings of "kilo-code.langchain" that the constructor reads with
\* get(name) || default, and the API key its lookups find ("" when none does).
GhostSettings == {<<>>, [chunkSize |-> 500], [chunkSize |-> 100], [similarityThreshold |-> 50]}

GhostKeys == {"", "key-1"}

GhostArgs(settings, key) ==
    [f \in Fields |->
        CASE f = "enabled"      -> TRUE
          [] f = "openaiApiKey" -> key
          [] OTHER -> IF Has(settings, f) /\ settings[f] # 0 THEN settings[f]
                      ELSE ConstructorConfig(<<>>)[f]]

\* new GhostContext(documentStore, true): without a key it returns before constructing
\* an enhancer; a throw of the enhancer's constructor is caught (the enhancer is null).
GhostConstructor(settings, key, outcome) ==
    /\ engine = "absent"
    /\ IF key = ""
       THEN /\ engine' = "noKey"
            /\ lastOp' = Step("ghostConstructor")
            /\ UNCHANGED <<engineVars, idx, enh, snapshot, probe, hist>>
       ELSE Constructor(GhostArgs(settings, key), outcome)

\* ghostContext.generate(..), to its first await: the open files are indexed if there
\* is an enhancer; without one the method returns the context.
Generate(batch) ==
    /\ engine # "absent"
    /\ IF engine = "live" THEN IndexStart(batch)
       ELSE /\ lastOp' = Step("generate")
            /\ UNCHANGED <<engine, engineVars, idx, enh, snapshot, probe, hist>>

\* A variant of GetEnhancedContext: without an enhancer it resolves to a context of no
\* chunks.
GetEnhancedContextOrEmpty(arg) ==
    /\ engine # "absent"
    /\ IF engine = "live" THEN EnhanceStart(arg)
       ELSE /\ enh.pc \in {"idle", "done"}
            /\ enh' = [Return([IdleEnhance EXCEPT !.arg = arg], "noEnhancer") EXCEPT
                            !.result = EnhancedContext(arg["context"], <<>>, 0)]
            /\ lastOp' = Step("getEnhancedContext")
            /\ UNCHANGED <<engine, engineVars, idx, snapshot, probe, hist>>

\* ghostContext.getEnhancedContext(context, query), to its first await: null without an
\* enhancer.
GetEnhancedContext(arg) ==
    /\ engine # "absent"
    /\ IF engine = "live" THEN EnhanceStart(arg)
       ELSE /\ enh.pc \in {"idle", "done"}
            /\ enh' = Return([IdleEnhance EXCEPT !.arg = arg], "noEnhancer")
            /\ lastOp' = Step("getEnhancedContext")
            /\ UNCHANGED <<engine, engineVars, idx, snapshot, probe, hist>>

\* ghostContext.updateLangChainConfig(arg): the enhancer's updateConfig, if there is one.
UpdateLangChainConfig(arg, outcome) ==
    /\ engine # "absent"
    /\ IF engine = "live" THEN UpdateConfig(arg, outcome)
       ELSE /\ lastOp' = Step("updateLangChainConfig")
            /\ UNCHANGED <<engine, engineVars, idx, enh, snapshot, probe, hist>>

\* The first version's enhanceContext is called with `query` on a store in which
\* `documents` (one chunk each) were indexed, under a similarityThreshold.
SimpleQuery(documents, query, threshold) ==
    /\ ~probe.asked
    /\ probe' = [asked |-> TRUE, documents |-> documents, query |-> query,
                 threshold |-> threshold,
                 result |-> SimpleEnhance(documents, query, threshold)]
    /\ UNCHANGED <<engine, engineVars, idx, enh, snapshot, lastOp, hist>>

\* The next-state relation, for given sets of arguments of the four operations and
\* given limits on the number of calls of a run.
NextWith(constructorArgs, partials, outcomes, batches, enhanceArgs, limits) ==
    \/ \E arg \in constructorArgs, outcome \in outcomes : Constructor(arg, outcome)
    \/ \E arg \in partials, outcome \in outcomes :
            hist.updates < limits.updates /\ UpdateConfig(arg, outcome)
    \/ \E batch \in batches : hist.indexCalls < limits.indexCalls /\ IndexStart(batch)
    \/ IndexAfterInit
    \/ \E ok \in BOOLEAN : IndexAfterSplit(ok)
    \/ \E ok \in BOOLEAN : IndexAfterAdd(ok)
    \/ \E arg \in enhanceArgs : hist.enhanceCalls < limits.enhanceCalls /\ EnhanceStart(arg)
    \/ EnhanceAfterInit
    \/ \E ok \in BOOLEAN : EnhanceAfterSearch(ok)

\* The arguments of the life-cycle specification: the tests' configuration, enabled
\* and disabled; the updates that move the engine through its life cycle, one that
\* does not, and one that is rejected; an initialization that succeeds or fails.
CoreConstructorArgs == {TestConfig, With(TestConfig, "enabled", FALSE)}

CorePartials ==
    {[enabled |-> FALSE], [enabled |-> TRUE],
     [openaiApiKey |-> "key-2"], [modelName |-> "text-embedding-3-large"],
     [similarityThreshold |-> 0], [openaiApiKey |-> ""]}

CoreOutcomes == {"ok", "embeddingsThrow"}

CoreBatches == {<<DocA>>, <<DocBlank, DocA>>, <<DocUntitled>>}

Next ==
    NextWith(CoreConstructorArgs, CorePartials, CoreOutcomes, CoreBatches, EnhanceArgs,
             [updates |-> MaxUpdates, indexCalls |-> MaxIndexCalls,
              enhanceCalls |-> MaxEnhanceCalls])

Spec == Init /\ [][Next]_vars

\* The configuration specification: every update, of an engine constructed from the
\* tests' configuration (or not constructed, for the want of an API key), around one
\* document and one query.
ConfigConstructorArgs ==
    CoreConstructorArgs
    \cup {With(TestConfig, "openaiApiKey", ""), Without(TestConfig, "openaiApiKey")}

ConfigLimits ==
    [updates |-> MaxConfigUpdates, indexCalls |-> MaxConfigIndexCalls,
     enhanceCalls |-> MaxConfigEnhanceCalls]

NextConfig ==
    NextWith(ConfigConstructorArgs, Partials, CoreOutcomes, {<<DocA>>},
             {[context |-> <<>>, query |-> QueryA]}, ConfigLimits)

SpecConfig == Init /\ [][NextConfig]_vars

\* The life-cycle specification under fair scheduling: the promise a call awaits is
\* settled (the provider and the splitter return or throw), and the continuation of a
\* settled promise is run.
Fairness ==
    /\ WF_vars(IndexAfterInit)
    /\ WF_vars(\E ok \in BOOLEAN : IndexAfterSplit(ok))
    /\ WF_vars(\E ok \in BOOLEAN : IndexAfterAdd(ok))
    /\ WF_vars(EnhanceAfterInit)
    /\ WF_vars(\E ok \in BOOLEAN : EnhanceAfterSearch(ok))

FairSpec == Spec /\ Fairness

\* The construction specification: every constructor argument, and the updates of the
\* life cycle, around one document and one query.
NextConstruct ==
    NextWith(ConstructorArgs, CorePartials, InitOutcomes, {<<DocA>>},
             {[context |-> <<>>, query |-> QueryA]}, ConfigLimits)

SpecConstruct == Init /\ [][NextConstruct]_vars

\* The search specification: an engine of small chunks (100 characters, no overlap),
\* so that a file gives several chunks and a store more than a search returns; files
\* that the queries name or do not name; the threshold lowered to 0 or left at 0.7.
SearchConfig == With(With(TestConfig, "chunkSize", 100), "chunkOverlap", 0)

SearchPartials == {[similarityThreshold |-> 0]}

SearchBatches == {<<DocLong>>, <<DocA, DocB>>}

SearchEnhanceArgs ==
    {[context |-> <<>>, query |-> QueryLong], [context |-> <<>>, query |-> QueryA],
     [context |-> [userInput |-> QueryB]]}

NextSearch ==
    NextWith({SearchConfig}, SearchPartials, CoreOutcomes, SearchBatches, SearchEnhanceArgs,
             [updates |-> MaxConfigUpdates, indexCalls |-> MaxSearchIndexCalls,
              enhanceCalls |-> MaxEnhanceCalls])

SpecSearch == Init /\ [][NextSearch]_vars

----------------------------------------------------------------------------
\* The score specification: the engine constructed with the threshold of the tests or
\* with a threshold below zero, which the constructor takes as it is; a file the query
\* names, and a query far from every file.
ScoreConstructorArgs == {TestConfig, With(TestConfig, "similarityThreshold", -10)}

ScoreEnhanceArgs ==
    {[context |-> <<>>, query |-> QueryFar], [context |-> <<>>, query |-> QueryA]}

NextScore ==
    NextWith(ScoreConstructorArgs, SearchPartials, CoreOutcomes, {<<DocA>>, <<DocLong>>},
             ScoreEnhanceArgs, ConfigLimits)

SpecScore == Init /\ [][NextScore]_vars

----------------------------------------------------------------------------
\* The interleaving specification: the engine of small chunks, and the updates of the
\* values a running call reads (the splitter's chunk size, the cap of the files, the
\* threshold), which may come between two steps of a call; two files to one call.
InterleavePartials ==
    {[chunkSize |-> 200], [maxContextFiles |-> 1], [similarityThreshold |-> 0]}

InterleaveBatches == {<<DocLong, DocA>>, <<DocA, DocB>>}

NextInterleave ==
    NextWith({SearchConfig}, InterleavePartials, CoreOutcomes, InterleaveBatches,
             SearchEnhanceArgs,
             [updates |-> MaxConfigUpdates, indexCalls |-> MaxIndexCalls,
              enhanceCalls |-> MaxEnhanceCalls])

SpecInterleave == Init /\ [][NextInterleave]_vars

----------------------------------------------------------------------------
\* The specification of GhostContext: constructed with or without a key, over settings
\* the enhancer's constructor accepts or throws at; then its four methods.
NextGhost ==
    \/ \E settings \in GhostSettings, key \in GhostKeys, outcome \in CoreOutcomes :
            GhostConstructor(settings, key, outcome)
    \/ \E arg \in CorePartials, outcome \in CoreOutcomes :
            hist.updates < MaxConfigUpdates /\ UpdateLangChainConfig(arg, outcome)
    \/ \E batch \in CoreBatches : hist.indexCalls < MaxConfigIndexCalls /\ Generate(batch)
    \/ IndexAfterInit
    \/ \E ok \in BOOLEAN : IndexAfterSplit(ok)
    \/ \E ok \in BOOLEAN : IndexAfterAdd(ok)
    \/ \E arg \in EnhanceArgs :
            hist.enhanceCalls < MaxConfigEnhanceCalls /\ GetEnhancedContext(arg)
    \/ EnhanceAfterInit
    \/ \E ok \in BOOLEAN : EnhanceAfterSearch(ok)

SpecGhost == Init /\ [][NextGhost]_vars

----------------------------------------------------------------------------
\* The indexing specification: the engine of small chunks with room for ten files or
\* for one; every batch of up to MaxDocs of the documents (local files, a blank file,
\* an untitled buffer), in every order; one query.
IndexConfigs == {SearchConfig, With(SearchConfig, "maxContextFiles", 1)}

IndexPartials == {[maxContextFiles |-> 1]}

IndexEnhanceArgs == {[context |-> <<>>, query |-> QueryA]}

NextIndex ==
    NextWith(IndexConfigs, IndexPartials, CoreOutcomes, Batches, IndexEnhanceArgs,
             [updates |-> MaxConfigUpdates, indexCalls |-> MaxIndexCalls,
              enhanceCalls |-> MaxEnhanceCalls])

SpecIndex == Init /\ [][NextIndex]_vars

----------------------------------------------------------------------------
\* The query specification: the tests' engine with one file indexed, and every context
\* of a choice of user input, start line, syntax node and diagnostics, with no query,
\* an empty query, a short query or a query of more than 500 characters.
ContextValues(f) ==
    CASE f = "userInput"   -> {EmptyStr, QueryA, QueryHalf}
      [] f = "lineText"    -> {Spaces, QueryB}
      [] f = "astType"     -> {[w |-> <<"identifier">>, n |-> 10]}
      [] f = "diagnostics" -> {<<>>, <<QueryLong>>, <<QueryLong, QueryHalf>>}

RECURSIVE ContextsOver(_)
ContextsOver(F) ==
    IF F = {} THEN {<<>>}
    ELSE LET f == CHOOSE x \in F : TRUE
             rest == ContextsOver(F \ {f})
         IN  rest \cup {With(c, f, v) : c \in rest, v \in ContextValues(f)}

Contexts == ContextsOver({"userInput", "lineText", "astType", "diagnostics"})

QueryArgs ==
    {[context |-> c] : c \in Contexts}
    \cup {[context |-> c, query |-> q] : c \in Contexts, q \in {EmptyStr, QueryA, QueryHuge}}

NextQuery ==
    NextWith({TestConfig}, SearchPartials, CoreOutcomes, {<<DocA>>}, QueryArgs,
             [updates |-> MaxConfigUpdates, indexCalls |-> MaxIndexCalls,
              enhanceCalls |-> MaxEnhanceCalls])

SpecQuery == Init /\ [][NextQuery]_vars

----------------------------------------------------------------------------
\* The snapshot specification: the tests' engine, the update of the configuration
\* test and updates that reset or disable, with getConfig() called at any time and
\* the caller writing to the object it got.
SnapshotPartials ==
    {[chunkSize |-> 500, maxContextFiles |-> 5], [similarityThreshold |-> 0],
     [openaiApiKey |-> "key-2"], [enabled |-> FALSE]}

NextSnapshot ==
    \/ NextWith({TestConfig}, SnapshotPartials, CoreOutcomes, {<<DocA>>}, IndexEnhanceArgs,
                [updates |-> MaxConfigUpdates, indexCalls |-> MaxIndexCalls,
                 enhanceCalls |-> MaxEnhanceCalls])
    \/ GetConfig
    \/ MutateSnapshot("chunkSize", 1)
    \/ MutateSnapshot("enabled", FALSE)

SpecSnapshot == Init /\ [][NextSnapshot]_vars

----------------------------------------------------------------------------
\* The specification of the first version's store: every store of up to MaxStoredTexts
\* non-empty texts, every query, and a threshold at either end or inside [0, 1].
StoredTexts == UNION {[1..n -> Texts \ {<<>>}] : n \in 0..MaxStoredTexts}

NextSimple ==
    /\ ~probe.asked
    /\ \E documents \in StoredTexts, query \in Texts, threshold \in {0, 70, 100} :
            SimpleQuery(documents, query, threshold)

SpecSimple == Init /\ [][NextSimple]_vars

----------------------------------------------------------------------------
(* The claims *)

\* The store the engine holds has documents.
IndexNotEmpty == vectorStore # 0 /\ inits[vectorStore].memoryVectors # <<>>

\* Some store of the heap has documents.
SomeStoreNotEmpty == \E n \in 1..Len(inits) : inits[n].memoryVectors # <<>>

ValidationThrows == {"apiKey", "chunkSize", "chunkOverlap", "maxContextFiles",
                     "similarityThreshold"}

\* C1: an engine constructed with enabled = false and never enabled since is not
\* available and not ready, has constructed no provider and no store, returns from
\* every indexWorkspaceDocuments at the check of enabled (nothing added), and resolves
\* every enhanceContext to null.
C1_DisabledEngineIsInert ==
    (engine = "live" /\ ~hist.everEnabled) =>
        /\ ~isAvailable
        /\ ~isReady
        /\ inits = <<>>
        /\ idx.pc \in {"idle", "done"}
        /\ idx.pc = "done" => idx.outcome = "disabled" /\ idx.acc = <<>>
        /\ enh.pc \in {"idle", "done"}
        /\ enh.pc = "done" => enh.result.isNull

C1_Witness ==
    /\ engine = "live" /\ ~hist.everEnabled
    /\ hist.updates > 0
    /\ idx.pc = "done" /\ enh.pc = "done"

\* C2: right after the constructor returns with enabled = true, and right after any
\* updateConfig that returns and leaves the engine enabled, isAvailable() is true.
C2_AvailableOnceEnabled ==
    (/\ engine = "live"
     /\ lastOp.op \in {"constructor", "updateConfig"}
     /\ lastOp.threw = "none"
     /\ getConfig["enabled"]) => isAvailable

C2_Witness ==
    /\ lastOp.op = "updateConfig" /\ lastOp.threw = "none"
    /\ config["enabled"] /\ isAvailable
    /\ ~isReady
    /\ Len(inits) > 1

\* C3: a call issued while the engine is initializing awaits the initialization, never
\* uses a null store, and does not return for the want of a store when the
\* initialization it awaited succeeded.
C3_CallsWhileInitializingAwait ==
    /\ idx.initializing =>
        /\ idx.awaited
        /\ idx.outcome # "nullStore"
        /\ idx.outcome = "noStore" => Rejected(inits[idx.promise])
    /\ enh.initializing => enh.outcome # "noStore"

\* C4: an updateConfig that carries a number out of its bounds throws at validation
\* and leaves the configuration, the engine's state and the calls in flight as they
\* were, whatever else it carries.
C4_OutOfBoundsUpdateRejected ==
    [][(lastOp'.op = "updateConfig" /\ "outOfBounds" \in lastOp'.carried) =>
            /\ lastOp'.threw \in ValidationThrows
            /\ UNCHANGED <<engine, engineVars, idx, enh>>]_vars

C4_Witness ==
    /\ lastOp.op = "updateConfig"
    /\ {"outOfBounds", "valid"} \subseteq lastOp.carried
    /\ lastOp.threw \in ValidationThrows
    /\ IndexNotEmpty

\* C5: the configuration of an engine always has chunkOverlap < chunkSize, and an
\* updateConfig that throws leaves the engine as it was.
C5_OverlapBelowSize ==
    [][/\ engine' = "live" => config'["chunkOverlap"] < config'["chunkSize"]
       /\ (lastOp'.op = "updateConfig" /\ lastOp'.threw # "none") => UNCHANGED engineVars]_vars

\* C6: the configuration of a constructed engine is always within the bounds of its
\* four numbers.
C6_ConfigWithinBounds ==
    engine = "live" =>
        /\ config["chunkSize"] \in MinChunkSize..MaxChunkSize
        /\ config["chunkOverlap"] \in MinChunkOverlap..MaxChunkOverlap
        /\ config["maxContextFiles"] \in MinContextFiles..MaxContextFiles
        /\ config["similarityThreshold"] \in MinSimilarityThreshold..MaxSimilarityThreshold

\* C7: the constructor given an empty (or no) API key throws and makes no engine; an
\* updateConfig given an empty API key throws and leaves the configuration, the index
\* and the initialization state as they were.
C7_EmptyKeyRejected ==
    [][/\ (lastOp'.op = "constructor" /\ lastOp'.carried \cap {"emptyKey", "noKey"} # {}) =>
            /\ lastOp'.threw = "apiKey"
            /\ engine' = "threw"
            /\ UNCHANGED engineVars
       /\ (lastOp'.op = "updateConfig" /\ "emptyKey" \in lastOp'.carried) =>
            /\ lastOp'.threw = "apiKey"
            /\ UNCHANGED <<engine, engineVars, idx, enh>>]_vars

C7_Witness ==
    /\ lastOp.op = "updateConfig"
    /\ "emptyKey" \in lastOp.carried
    /\ lastOp.threw = "apiKey"
    /\ isReady
    /\ IndexNotEmpty

\* C8: an updateConfig that returns and carries an API key or a model name leaves an
\* enabled engine with a new initialization run, whose provider is the one of the new
\* configuration and whose store is empty, and a disabled one with no store; and no
\* enhanceContext returns a chunk added before the last such update that preceded its
\* call.
C8_KeyOrModelChangeStartsAfresh ==
    [][/\ (/\ lastOp'.op = "updateConfig"
           /\ lastOp'.threw = "none"
           /\ "keyOrModel" \in lastOp'.carried) =>
            IF config'["enabled"]
            THEN /\ Len(inits') = Len(inits) + 1
                 /\ initializationPromise' = Len(inits')
                 /\ vectorStore' \in {0, Len(inits')}
                 /\ inits'[Len(inits')].memoryVectors = <<>>
                 /\ ProviderOf(inits'[Len(inits')])
                        = [apiKey |-> config'["openaiApiKey"],
                           modelName |-> EffectiveModel(config')]
            ELSE vectorStore' = 0 /\ initializationPromise' = 0
       /\ \A i \in 1..Len(enh'.result.relevantCodeChunks) :
            enh'.result.relevantCodeChunks[i].addedAt >= enh'.issuedAt]_vars

C8_Witness ==
    /\ enh.pc = "done" /\ enh.outcome = "enhanced"
    /\ enh.issuedAt > 0
    /\ \E n \in 1..Len(inits) : \E i \in 1..Len(inits[n].memoryVectors) :
            inits[n].memoryVectors[i].addedAt < enh.issuedAt

C10_DisableTakesEffect ==
    [][/\ (lastOp'.op = "updateConfig" /\ "onlyDisable" \in lastOp'.carried) =>
            /\ lastOp'.threw = "none"
            /\ ~getConfig'["enabled"]
            /\ ~isAvailable'
            /\ ~isReady'
       /\ (/\ lastOp'.op = "enhance"
           /\ hist'.enhanceCalls > hist.enhanceCalls
           /\ ~config["enabled"]) =>
            enh'.pc = "done" /\ enh'.result.isNull]_vars

C10_Witness ==
    /\ lastOp.op = "enhance"
    /\ enh.pc = "done" /\ enh.outcome = "disabled"
    /\ ~config["enabled"]
    /\ hist.everEnabled
    /\ SomeStoreNotEmpty

\* The engine is enabled and its last initialization failed.
Failed ==
    /\ engine = "live"
    /\ config["enabled"]
    /\ initializationPromise # 0
    /\ inits[initializationPromise].result \in {"embeddingsThrow", "storeThrow"}

\* C11: while the engine is enabled and its initialization has failed, isReady() is
\* false and the engine holds no store; a call that was issued then awaits the rejected
\* promise and returns at its catch: indexWorkspaceDocuments having added nothing,
\* enhanceContext with null.
C11_FailedEngineIsQuiet ==
    /\ Failed => ~isReady /\ vectorStore = 0
    /\ (idx.awaited /\ inits[idx.promise].result # "ok") =>
        /\ idx.pc \in {"awaitInit", "done"}
        /\ idx.pc = "done" => idx.outcome = "initFailed" /\ idx.acc = <<>>
    /\ (enh.awaited /\ inits[enh.promise].result # "ok") =>
        /\ enh.pc \in {"awaitInit", "done"}
        /\ enh.pc = "done" => enh.outcome = "initFailed" /\ enh.result.isNull

C11_Witness ==
    /\ Failed
    /\ idx.pc = "done" /\ idx.outcome = "initFailed"
    /\ enh.pc = "done" /\ enh.outcome = "initFailed"
    /\ idx.promise = initializationPromise /\ enh.promise = initializationPromise

\* The returns of the two operations: every one resolves the call's promise.
IndexReturns ==
    {"disabled", "initFailed", "noStore", "nothingToIndex", "nullStore", "splitFailed",
     "addFailed", "indexed"}

EnhanceNullReturns == {"disabled", "initFailed", "noStore", "noQuery", "searchFailed"}

\* Store n has the same documents after the step as before it.
StoreUnchanged(n) == inits'[n].memoryVectors = inits[n].memoryVectors

\* C12: every indexWorkspaceDocuments call ends in a return, and only the return after
\* a successful addDocuments changes the documents of a store: a call that fails leaves
\* every store as it was.  Every enhanceContext call ends in a return, with a context
\* when the search succeeded and with null otherwise, so with null when the search threw.
C12_FailuresStayInside ==
    [][/\ idx'.pc = "done" => idx'.outcome \in IndexReturns
       /\ \A n \in 1..Len(inits) :
            StoreUnchanged(n) \/ (idx.pc = "add" /\ idx'.outcome = "indexed")
       /\ (idx.pc # "done" /\ idx'.pc = "done" /\ idx'.outcome # "indexed") =>
            \A n \in 1..Len(inits) : StoreUnchanged(n)
       /\ enh'.pc = "done" =>
            \/ enh'.outcome = "enhanced" /\ ~enh'.result.isNull
            \/ enh'.outcome \in EnhanceNullReturns /\ enh'.result.isNull]_vars

C12_Witness ==
    /\ idx.pc = "done" /\ idx.outcome = "addFailed"
    /\ Len(idx.acc) > 1
    /\ enh.pc = "done" /\ enh.outcome = "searchFailed" /\ enh.result.isNull
    /\ IndexNotEmpty

\* C13: when an indexWorkspaceDocuments call returns after its addDocuments threw,
\* isReady() is false, and an enhanceContext called after that return gives null
\* without a search.
C13_ProviderFailureStopsEngine ==
    [][/\ (idx.pc = "add" /\ idx'.outcome = "addFailed") => ~isReady'
       /\ (/\ lastOp'.op = "enhance"
           /\ hist'.enhanceCalls > hist.enhanceCalls
           /\ idx.outcome = "addFailed") =>
            enh'.pc = "done" /\ enh'.result.isNull]_vars

C15_NotReadyRightAfterStart ==
    (/\ engine = "live"
     /\ lastOp.threw = "none"
     /\ \/ lastOp.op = "constructor" /\ config["enabled"]
        \/ lastOp.op = "updateConfig" /\ "keyOrModel" \in lastOp.carried) => ~isReady

\* The step is the return of enhanceContext with a context.
EnhanceReturnsContext ==
    enh.pc = "search" /\ enh'.pc = "done" /\ enh'.outcome = "enhanced"

\* C16: a context that enhanceContext returns has at most 5 chunks, each of a similarity
\* at or above the threshold of the configuration, best first; and when the searched
\* store has documents and all of them score below the threshold, the context has no
\* chunk (and is not null).
C16_TopFiveAboveThreshold ==
    [][EnhanceReturnsContext =>
        LET chunks == enh'.result.relevantCodeChunks
            stored == inits[enh.store].memoryVectors
        IN  /\ ~enh'.result.isNull
            /\ Len(chunks) <= 5
            /\ \A i \in 1..Len(chunks) : chunks[i].similarity >= config["similarityThreshold"]
            /\ \A i \in 1..Len(chunks) : \A j \in i..Len(chunks) :
                    chunks[i].similarity >= chunks[j].similarity
            /\ (\A i \in 1..Len(stored) :
                    Similarity(enh.query, stored[i].document) < config["similarityThreshold"])
                => chunks = <<>>]_vars

C16_Witness ==
    /\ enh.pc = "done" /\ enh.outcome = "enhanced"
    /\ Len(inits[enh.store].memoryVectors) > 5
    /\ Len(enh.result.relevantCodeChunks) = 5
    /\ enh.result.relevantCodeChunks[1].similarity > enh.result.relevantCodeChunks[5].similarity

\* C17: the related files of a returned context hold no path twice, and are exactly
\* the file paths of the returned chunks.
C17_RelatedFilesAreChunkFiles ==
    (enh.pc = "done" /\ ~enh.result.isNull) =>
        LET chunks == enh.result.relevantCodeChunks
            files == enh.result.relatedFiles
        IN  /\ \A i, j \in 1..Len(files) : files[i] = files[j] => i = j
            /\ {files[i] : i \in 1..Len(files)} = {chunks[i].filePath : i \in 1..Len(chunks)}

C17_Witness ==
    /\ enh.pc = "done" /\ ~enh.result.isNull
    /\ Len(enh.result.relevantCodeChunks) = 3
    /\ Len(enh.result.relatedFiles) = 2

\* The chunks an indexing call added are all among the entries of store n.
HoldsChunksOf(n, call) ==
    \A i \in 1..Len(call.acc) :
        \E j \in 1..Len(inits[n].memoryVectors) :
            inits[n].memoryVectors[j].document = call.acc[i]

\* C18: when indexWorkspaceDocuments has just resolved after its documents were added
\* (no other operation ran since, so no updateConfig did), an enhanceContext call issued
\* next searches a store that holds every chunk that call added.
C18_QueryAfterIndexSeesChunks ==
    [][(/\ lastOp.op = "index"
        /\ idx.pc = "done" /\ idx.outcome = "indexed"
        /\ enh.pc = "idle" /\ enh'.pc = "search") => HoldsChunksOf(enh'.store, idx)]_vars

\* C19: when an updateConfig that replaces the store has run while indexWorkspaceDocuments
\* was suspended in its embedding call, the add, on completing, leaves the chunks of the
\* call in the store the engine holds now.
C19_AddLandsInNewIndex ==
    [][(/\ lastOp.op = "updateConfig" /\ lastOp.threw = "none"
        /\ "keyOrModel" \in lastOp.carried
        /\ idx.pc = "add" /\ idx'.outcome = "indexed")
        => /\ vectorStore' # 0
           /\ HoldsChunksOf(vectorStore', idx')]_vars

\* C20: the documents of a store change in one step only, the completion of a
\* successful addDocuments, and that step appends a chunk for every chunk of every
\* indexed document of the call's batch, in order; the completion of a failed
\* addDocuments appends nothing.  A search that completes while an indexing call is
\* suspended in addDocuments therefore reads a store with none of that call's chunks
\* added yet, and its chunks are entries of that store.
C20_AddIsAllOrNothing ==
    [][/\ \A n \in 1..Len(inits) :
            LET old == inits[n].memoryVectors
                new == inits'[n].memoryVectors
            IN  \/ new = old
                \/ /\ idx.pc = "add" /\ idx'.outcome = "indexed" /\ n = idx.store
                   /\ Len(new) = Len(old) + Len(idx.acc)
                   /\ SubSeq(new, 1, Len(old)) = old
                   /\ \A i \in 1..Len(idx.acc) : new[Len(old) + i].document = idx.acc[i]
                   /\ \A k \in 1..Len(idx.batch) :
                        ~Skipped(idx.batch[k]) =>
                            \A c \in 1..Len(splitText(textSplitter, idx.batch[k].text)) :
                                \E i \in 1..Len(idx.acc) :
                                    /\ idx.acc[i].metadata.filePath = idx.batch[k].fsPath
                                    /\ idx.acc[i].metadata.chunkIndex = c - 1
       /\ \A n \in (Len(inits) + 1)..Len(inits') : inits'[n].memoryVectors = <<>>
       /\ (idx.pc = "add" /\ idx'.outcome = "addFailed") =>
            \A n \in 1..Len(inits) : StoreUnchanged(n)
       /\ (idx.pc = "add" /\ EnhanceReturnsContext) =>
            /\ \A n \in 1..Len(inits) : StoreUnchanged(n)
            /\ \A i \in 1..Len(enh'.result.relevantCodeChunks) :
                \E j \in 1..Len(inits[enh.store].memoryVectors) :
                    /\ inits[enh.store].memoryVectors[j].document.metadata.filePath
                            = enh'.result.relevantCodeChunks[i].filePath
                    /\ inits[enh.store].memoryVectors[j].addedAt
                            = enh'.result.relevantCodeChunks[i].addedAt]_vars

C20_Witness ==
    /\ lastOp.op = "enhance"
    /\ enh.pc = "done" /\ enh.outcome = "enhanced"
    /\ idx.pc = "add" /\ Len(idx.acc) > 1
    /\ enh.store = idx.store
    /\ enh.result.relevantCodeChunks # <<>>

\* The documents of a batch that the filter of the loop lets through, in order.
PassFilter(docs) == SelectSeq(docs, LAMBDA doc : ~Skipped(doc))

\* The file paths of a sequence of documents (vscode documents or LangChain documents).
PathsOf(docs) == {docs[i].fsPath : i \in 1..Len(docs)}

ChunkPathsOf(chunks) == {chunks[i].metadata.filePath : i \in 1..Len(chunks)}

\* C21: the sources an indexWorkspaceDocuments call indexes are exactly the first
\* maxContextFiles of the sources of the batch that pass the filter (local, not blank).
\* Stated for calls that ran through with the configuration of the constructor.
C21_FilterThenTruncate ==
    (/\ engine = "live" /\ hist.updates = 0
     /\ idx.pc = "done" /\ idx.outcome \in {"indexed", "addFailed", "nothingToIndex"})
        => ChunkPathsOf(idx.acc)
            = PathsOf(SliceTo(PassFilter(idx.batch), config["maxContextFiles"]))

\* The step enters the loop of indexWorkspaceDocuments: the batch is sliced here.
IndexLoopStarts ==
    /\ idx.pc \in {"idle", "done", "awaitInit"}
    /\ idx'.pc \in {"split", "add"} \/ (idx'.pc = "done" /\ idx'.outcome = "nothingToIndex")

C23_FailedSourceIsSkipped ==
    [][(/\ idx.pc = "split"
        /\ idx.acc # <<>> \/ DropSkipped(Tail(idx.docs)) # <<>>)
        => ~(idx'.pc = "done" /\ idx'.outcome = "splitFailed")]_vars

\* C24: a call issues addDocuments only with chunks to add, they are then all the
\* chunks of all the sources it accepted (for a call under the constructor's
\* configuration: of the sources among the first maxContextFiles that pass the filter),
\* and a call that collected no chunk returns without it; once issued, the add is
\* followed by the return of the call, whether it succeeded or failed, so a call issues
\* it once, and a second add belongs to a new call.
C24_OneAddPerCall ==
    [][/\ (idx'.pc = "add" /\ idx.pc # "add") =>
            /\ idx'.acc # <<>>
            /\ idx'.docs = <<>>
            /\ idx.pc \in {"idle", "done"} => hist'.indexCalls = hist.indexCalls + 1
            /\ hist.updates = 0 =>
                LET accepted == PassFilter(SliceTo(idx'.batch, config["maxContextFiles"]))
                IN  \A k \in 1..Len(accepted) :
                        \A c \in 1..Len(splitText(textSplitter, accepted[k].text)) :
                            \E i \in 1..Len(idx'.acc) :
                                /\ idx'.acc[i].metadata.filePath = accepted[k].fsPath
                                /\ idx'.acc[i].metadata.chunkIndex = c - 1
       /\ (idx.pc = "add" /\ idx' # idx) =>
            idx'.pc = "done" /\ idx'.outcome \in {"indexed", "addFailed"}
       /\ (idx'.pc = "done" /\ idx'.outcome = "nothingToIndex" /\ idx' # idx) =>
            /\ idx.pc # "add"
            /\ idx'.acc = <<>>
            /\ \A n \in 1..Len(inits) : StoreUnchanged(n)]_vars

C24_Witness ==
    /\ engine = "live" /\ vectorStore # 0
    /\ idx.pc = "done" /\ idx.outcome = "nothingToIndex"
    /\ Len(idx.batch) = 2
    /\ \A n \in 1..Len(inits) : inits[n].memoryVectors = <<>>

\* The number of entries of a store that hold the document d.
Copies(memoryVectors, d) ==
    Cardinality({j \in 1..Len(memoryVectors) : memoryVectors[j].document = d})

\* The number of places of a sequence of documents that hold d.
Places(documents, d) == Cardinality({i \in 1..Len(documents) : documents[i] = d})

\* C25: while the engine keeps its store (no reset), the store loses no entry, and an
\* indexing call whose add succeeds on it leaves, for each chunk it added, as many
\* more copies of the chunk as the call collected, whatever the store held before: the
\* store grows by the number of chunks of the call.
C25_NoDeduplication ==
    [][(vectorStore # 0 /\ vectorStore' = vectorStore) =>
        LET old == inits[vectorStore].memoryVectors
            new == inits'[vectorStore].memoryVectors
        IN  /\ Len(new) >= Len(old)
            /\ \A j \in 1..Len(old) : Copies(new, old[j].document) >= Copies(old, old[j].document)
            /\ (idx.pc = "add" /\ idx'.outcome = "indexed" /\ idx.store = vectorStore) =>
                /\ Len(new) = Len(old) + Len(idx.acc)
                /\ Len(new) > Len(old)
                /\ \A i \in 1..Len(idx.acc) :
                    Copies(new, idx.acc[i]) = Copies(old, idx.acc[i]) + Places(idx.acc, idx.acc[i])]_vars

C25_Witness ==
    /\ vectorStore # 0
    /\ idx.pc = "done" /\ idx.outcome = "indexed" /\ hist.indexCalls = 2
    /\ \A i \in 1..Len(idx.acc) : Copies(inits[vectorStore].memoryVectors, idx.acc[i]) = 2

\* The call was given no query, or an empty one.
NoExplicitQuery(arg) == ~Has(arg, "query") \/ arg["query"].n = 0

\* The pieces of a context in the order of the query text: the user input, the trimmed
\* start line, the type of the syntax node, the diagnostic messages; each when present.
QueryPieces(context) ==
    (IF Has(context, "userInput") /\ context["userInput"].n > 0
     THEN <<context["userInput"]>> ELSE <<>>)
    \o (IF Has(context, "lineText") /\ context["lineText"].w # <<>>
        THEN <<context["lineText"]>> ELSE <<>>)
    \o (IF Has(context, "astType") THEN <<context["astType"]>> ELSE <<>>)
    \o (IF Has(context, "diagnostics") THEN context["diagnostics"] ELSE <<>>)

C27_QueryAtMost500 ==
    enh.pc = "search" => enh.query.n <= 500

\* C28: hasLangChainEnhancement() is true exactly when the enhancer exists and its
\* isAvailable() is true.
C28_EnhancementWhenAvailable ==
    hasLangChainEnhancement <=> (engine = "live" /\ isAvailable)

\* C29: after an updateConfig that returns, getConfig() is the configuration of
\* before with the fields of the argument overridden by the argument's values; a
\* getConfig() call hands out the fields of the configuration of that moment; and a
\* write of the caller to the object it was handed changes neither the configuration
\* nor what getConfig() gives.
C29_GetConfigIsSnapshot ==
    [][/\ \A arg \in SnapshotPartials, outcome \in CoreOutcomes :
            (UpdateConfig(arg, outcome) /\ lastOp'.threw = "none") =>
                /\ DOMAIN getConfig' = DOMAIN getConfig \cup DOMAIN arg
                /\ \A f \in DOMAIN getConfig' :
                        getConfig'[f] = IF f \in DOMAIN arg THEN arg[f] ELSE getConfig[f]
       /\ lastOp'.op = "getConfig" => snapshot'.value = getConfig /\ getConfig' = getConfig
       /\ lastOp'.op = "mutate" =>
            /\ snapshot'.value # snapshot.value
            /\ config' = config
            /\ getConfig' = getConfig]_vars

C29_Witness ==
    /\ engine = "live" /\ lastOp.op = "getConfig"
    /\ hist.updates = 1 /\ config["chunkSize"] = 500 /\ config["maxContextFiles"] = 5
    /\ snapshot.calls = 2 /\ snapshot.writes = 1
    /\ snapshot.value = config

C32_SimilarityInUnitInterval ==
    (enh.pc = "done" /\ ~enh.result.isNull) =>
        \A i \in 1..Len(enh.result.relevantCodeChunks) :
            /\ enh.result.relevantCodeChunks[i].similarity >= 0
            /\ enh.result.relevantCodeChunks[i].similarity <= 100

\* C33: isAvailable() is true exactly when the engine is enabled and either ready or
\* still initializing: false on a disabled engine, and false once the last
\* initialization has failed.
C33_AvailableUnlessFailed ==
    engine = "live" =>
        (isAvailable <=>
            /\ config["enabled"]
            /\ ~Failed
            /\ (isReady \/ initializationPromise # 0))

\* C34: after an updateConfig that returns, the text splitter in use has the chunkSize
\* and the chunkOverlap of the configuration.
C34_SplitterFollowsConfig ==
    (engine = "live" /\ lastOp.op = "updateConfig" /\ lastOp.threw = "none") =>
        /\ textSplitter.chunkSize = getConfig["chunkSize"]
        /\ textSplitter.chunkOverlap = getConfig["chunkOverlap"]

\* C35: an invocation works on one snapshot of the configuration: the documents of one
\* indexWorkspaceDocuments are all chunked by one splitter and taken from the first
\* maxContextFiles sources of the value read at the start of the loop, and an
\* enhanceContext keeps the found entries at or above the threshold that was in force
\* when it was called.
C35_OneSnapshotPerInvocation ==
    /\ Cardinality(idx.splitters) <= 1
    /\ \A i \in 1..Len(idx.acc) :
            \E j \in 1..Min(idx.cap, Len(idx.batch)) :
                idx.batch[j].fsPath = idx.acc[i].metadata.filePath
    /\ (enh.pc = "done" /\ enh.outcome = "enhanced") =>
            /\ \A i \in 1..Len(enh.result.relevantCodeChunks) :
                    enh.result.relevantCodeChunks[i].similarity >= enh.threshold
            /\ Len(enh.result.relevantCodeChunks) =
                    Len(SelectSeq(enh.found, LAMBDA r : r.score >= enh.threshold))

\* C36: a GhostContext that found no API key, or whose enhancer's constructor threw,
\* stays without an enhancer: hasLangChainEnhancement() is false, getEnhancedContext
\* resolves to null, updateLangChainConfig changes nothing, and generate starts no
\* indexing; no engine object, provider or store ever exists.
C36_LangChainOffForLife ==
    [][(engine \in {"noKey", "threw"}) =>
        /\ engine' = engine
        /\ ~hasLangChainEnhancement /\ ~hasLangChainEnhancement'
        /\ config' = <<>> /\ vectorStore' = 0 /\ embeddings' = 0 /\ inits' = <<>>
        /\ idx' = IdleIndex
        /\ enh'.pc \in {"idle", "done"} /\ enh'.result.isNull
        /\ lastOp'.threw = "none"]_vars

C36_Witness ==
    /\ engine = "threw"
    /\ enh.pc = "done" /\ enh.outcome = "noEnhancer" /\ enh.result.isNull
    /\ lastOp.op = "generate"

\* C37: under fair scheduling every invocation of indexWorkspaceDocuments and of
\* enhanceContext that has started eventually returns.
C37_CallsResolve ==
    /\ (idx.pc \notin {"idle", "done"}) ~> (idx.pc = "done")
    /\ (enh.pc \notin {"idle", "done"}) ~> (enh.pc = "done")

C37_Witness ==
    /\ idx.pc = "done" /\ idx.outcome = "initFailed"
    /\ enh.pc = "done" /\ enh.awaited
    /\ hist.updates = MaxUpdates

\* C38: an updateConfig that returns and leaves enabled, the API key and the model name
\* at the values they had leaves the stores and their contents, the provider and
\* isReady() as they were.
C38_SameValuesSameIndex ==
    [][(/\ engine = "live"
        /\ lastOp'.op = "updateConfig" /\ lastOp'.threw = "none"
        /\ hist'.updates > hist.updates
        /\ config'["enabled"] = config["enabled"]
        /\ config'["openaiApiKey"] = config["openaiApiKey"]
        /\ config'["modelName"] = config["modelName"]) =>
            /\ inits' = inits
            /\ vectorStore' = vectorStore
            /\ embeddings' = embeddings
            /\ isReady' = isReady]_vars

\* C39: while the configuration has enabled = false the engine holds no vector store
\* and no provider.
C39_DisabledHoldsNothing ==
    (engine = "live" /\ ~getConfig["enabled"]) => (vectorStore = 0 /\ embeddings = 0)

\* C40: while isReady() is true, the store and the provider in use are the ones of one
\* initialization, made with the API key and the model name that getConfig() reports.
C40_ReadyMatchesConfig ==
    (engine = "live" /\ isReady) =>
        /\ embeddings = vectorStore
        /\ ProviderOf(inits[vectorStore]) =
                [apiKey |-> getConfig["openaiApiKey"], modelName |-> EffectiveModel(getConfig)]

\* C31: when the store holds one document of one chunk and the query is that chunk's
\* own text, the answer is that chunk, first, with similarity 1.0, whatever the
\* threshold in [0, 1].
C31_RoundTrip ==
    (probe.asked /\ Len(probe.documents) = 1 /\ probe.query = probe.documents[1]) =>
        /\ ~probe.result.isNull
        /\ Len(probe.result.relevantCodeChunks) = 1
        /\ probe.result.relevantCodeChunks[1].pos = 1
        /\ probe.result.relevantCodeChunks[1].pageContent = probe.query
        /\ probe.result.relevantCodeChunks[1].score.num
                = probe.result.relevantCodeChunks[1].score.den

C31_Witness ==
    /\ probe.asked /\ probe.documents = << <<"a", "A", "b">> >>
    /\ probe.query = probe.documents[1]
    /\ probe.threshold = 100
    /\ Len(probe.result.relevantCodeChunks) = 1

====
